---- MODULE Spec2Model ----
(***************************************************************************)
(* A model of the merlin client protocol engine: one client (the local     *)
(* host) on a relay.  The relay hands the client wire messages written by  *)
(* the local host itself (echoes, leftovers of an earlier session) and by  *)
(* a peer; the client decodes each one (Packet.from_message) and runs      *)
(* AbstractClient.on_packet on it.  Services call Client.send_packet, and  *)
(* handler tasks created by on_packet run one at a time on the event loop. *)
(* The connection is established once (on_connect, then on_ready).         *)
(***************************************************************************)
EXTENDS Integers, Sequences, FiniteSets, TLC

VARIABLES
    state,          \* AbstractClient.__state
    members,        \* the BaseNetwork list itself (client._network_stack)
    backlog,        \* BaseNetwork.backlog
    ackListeners,   \* the transient handlers in client._listeners[OpCode.Ack]
    tasks,          \* tasks created with loop.create_task, oldest first
    seqCounter,     \* next value of AbstractPacket.sequence_number
    cbCalls,        \* per send_packet seq: how often its ack_cb was awaited
    pc,             \* position of on_connect / on_ready / _discover_task
    steps,          \* values already drawn from _discover_task's step generator
    waited,         \* seconds slept so far by _discover_task
    syncPacket,     \* the sync_packet on_ready prepared
    out,            \* packets handed to channel.send by the latest operation
    last,           \* what the latest operation was and how it ended
    nSend,          \* send_packet calls made so far
    hosts,          \* network of clients: each host's state, stack, position
    flight,         \* network of clients: messages the relay has yet to hand over
    sent,           \* network of clients: every message posted to the relay
    now,            \* cleanup: the clock, in ticks of 1/TicksPerSecond second
    cpkt,           \* cleanup: timestamp and ttl of the packet being collected
    collected,      \* cleanup: the packet's __collected flag
    coll,           \* cleanup: position and wake-up time of each collect() call
    deleted,        \* cleanup: the times at which _message.delete() was attempted
    reader,         \* inbound path: whether _stream_reader_task is still running
    inbox,          \* inbound path: the raw messages the relay delivers, in order
    pos,            \* inbound path: how many of them the reader has taken
    calls,          \* inbound path: the on_packet invocations dispatched so far
    built,          \* packets: given and assigned seq of each packet constructed
    trip,           \* packets: the latest encode/decode round trip
    tk,             \* ext.tasks: the fields of one Task object
    itasks          \* ext.tasks: the asyncio tasks the Task object has created

\* The variables of the single client.
clientVars == << state, members, backlog, ackListeners, tasks, seqCounter,
                 cbCalls, pc, steps, waited, syncPacket, out, last, nSend >>

\* The variables of the network of clients.
netVars == << hosts, flight, sent >>

\* The variables of the cleanup of one packet.
collectVars == << now, cpkt, collected, coll, deleted >>

\* The variables of the inbound path.
readerVars == << reader, inbox, pos, calls >>

\* The variables of packet construction and encoding.
packetVars == << built, trip >>

\* The variables of ext.tasks.
taskVars == << tk, itasks >>

auxVars == << readerVars, packetVars, taskVars >>

vars == << clientVars, netVars, collectVars, auxVars >>

-----------------------------------------------------------------------------
(* Bounds of the model *)

MaxSend == 1        \* send_packet calls services make in one run
MaxSeq == 3         \* largest sequence number the generator hands out
MaxBacklog == 2     \* packets queued in the backlog
MaxCalls == 2       \* Acks delivered for one packet sent with an ack callback
MaxJoining == 2     \* hosts of the network that are joining at the same time
MaxRoster == 3      \* hosts in a roster on_packet is applied to
MaxTtl == 2         \* largest ttl, in seconds, of a collected packet
MaxClock == 6       \* ticks the cleanup clock runs for
MaxInbox == 3       \* raw messages the relay delivers to the reader
MaxBuilt == 4       \* packets constructed in one process
MaxEchoed == 3      \* constructions after which a packet is still echoed
MaxTasks == 3       \* internal tasks one Task object creates
MaxLoops == 2       \* iterations of one internal task
MaxCallbacks == 2   \* restart() calls pending on one internal task
MaxTime == 1        \* seconds, the latest time a packet is encoded at

-----------------------------------------------------------------------------
(* Enumerations, hosts and values *)

OpCode == {"Heartbeat", "Alive", "Dead", "Data", "Ack", "Hello", "Sync"}

State == {"Dead", "Connected", "Discovery", "Alive", "Dying"}

LocalHost == "A"    \* AbstractClient.HOSTNAME of the modelled client

Peer == "B"         \* another host on the relay

Stranger == "C"     \* a third host, only ever a recipient

None == "None"      \* Python's None for author, recipient and string data

NoTtl == -1         \* ttl None: the packet does not expire

DiscoverySteps == 15

AliveTtl == 60

SyncTtl == 30

HelloTtl == 15

DeadTtl == 60

\* JSON values carried in a packet's data field: null, a host name, or a
\* stack snapshot {'s': members, 'b': backlog}.
NullData == [tag |-> "null", str |-> None, s |-> << >>, b |-> << >>]

StrData(h) == [tag |-> "str", str |-> h, s |-> << >>, b |-> << >>]

StackData(m, bl) == [tag |-> "stack", str |-> None, s |-> m, b |-> bl]

\* count = None of ext.tasks.Task: the loop has no last iteration.
NoCount == 0

\* An ext.tasks.Task after __init__, with its count; hooks tells whether
\* coroutines are registered with before_loop and after_loop.  task is the
\* index of the internal task (0: None); last and raised describe the
\* latest call on the object.
NewLoop(count, hooks) ==
    [task |-> 0, stop |-> FALSE, cancelling |-> FALSE, current_loop |-> 0,
     count |-> count, hooks |-> hooks, last |-> "init", raised |-> "none"]

\* A Packet object: the fields on_packet, respond and ack read, and the
\* 's' of the payload of the relay message it belongs to (_message).
Pkt(op, author, recipient, data, ttl, seq, wire) ==
    [op |-> op, author |-> author, recipient |-> recipient,
     data |-> data, ttl |-> ttl, seq |-> seq, wire |-> wire]

NoPacket == Pkt("none", None, None, NullData, NoTtl, 0, 0)

-----------------------------------------------------------------------------
(* Packet: construction, decoding, replies *)

\* Packet.__init__: self.seq = kwargs.get('seq') or next(sequence_number).
\* A missing seq (None) and the seq 0 are both falsy, so both draw a fresh
\* number; given = 0 stands for either.
SeqOrNext(given, counter) == IF given # 0 THEN given ELSE counter

\* The generator left where it was by the construction.
CounterStuck(given, counter) == counter

\* The generator's next value after that construction.
CounterAfter(given, counter) == IF given # 0 THEN counter ELSE counter + 1

\* A well-formed wire payload {op, d, f, t, ttl, s}.
Msg(op, d, f, t, ttl, s) ==
    [op |-> op, d |-> d, f |-> f, t |-> t, ttl |-> ttl, s |-> s]

\* Packet.from_message on a well-formed payload.
\* from_message with the payload fields 'f' and 't' exchanged.
from_messageSwapped(m, counter) ==
    Pkt(m.op, m.t, m.f, m.d, m.ttl, SeqOrNext(m.s, counter), m.s)

from_message(m, counter) ==
    Pkt(m.op, m.f, m.t, m.d, m.ttl, SeqOrNext(m.s, counter), m.s)

\* AbstractPacket.expires
expires(p) == p.ttl # NoTtl

\* response, addressing the reply to the local host instead of the author.
responseToSelf(p, op, data, ttl, counter) ==
    Pkt(op, LocalHost, LocalHost, data, ttl,
        SeqOrNext(0, counter), SeqOrNext(0, counter))

\* Packet.response: a new packet addressed to the author of p; no seq is
\* passed on, and the author defaults to socket.gethostname().
response(p, op, data, ttl, counter) ==
    Pkt(op, LocalHost, p.author, data, ttl,
        SeqOrNext(0, counter), SeqOrNext(0, counter))

\* Packet.ack: Packet(..., op=Ack, seq=self.seq, author=client.hostname,
\* recipient=self.author, data=data)
ack(p, data, counter) ==
    Pkt("Ack", LocalHost, p.author, data, NoTtl,
        SeqOrNext(p.seq, counter), SeqOrNext(p.seq, counter))

\* json.dumps(self.payload) succeeds unless the data holds Packet objects,
\* which only a snapshot with a non-empty backlog does.
Serializable(p) == p.data.tag # "stack" \/ p.data.b = << >>

\* Packet.send: what reaches channel.send.  A failure to encode is caught
\* inside send and reported on the 'error' dispatch key.
send(p) == IF Serializable(p) THEN << p >> ELSE << >>

-----------------------------------------------------------------------------
(* BaseNetwork *)

\* BaseNetwork.head is self[-1]; the caller checks for the empty list, on
\* which Python raises IndexError.
head(m) == m[Len(m)]

\* BaseNetwork.into_raw
into_raw(m, bl) == StackData(m, bl)

\* reset without its self.extend(data).
resetNoExtend(data) == [members |-> << >>, backlog |-> << >>]

\* BaseNetwork.reset(data): the stack after it, as [members, backlog].
reset(data) == [members |-> data, backlog |-> << >>]

Contains(m, x) == \E i \in 1..Len(m) : m[i] = x

\* list.pop(0) in place of list.remove(x): the oldest member is dropped.
RemoveOldest(m, x) == Tail(m)

RECURSIVE RemoveFirst(_, _)
\* list.remove(x) on a list that holds x: the first occurrence goes.
RemoveFirst(m, x) ==
    IF m = << >> THEN << >>
    ELSE IF m[1] = x THEN Tail(m)
    ELSE << m[1] >> \o RemoveFirst(Tail(m), x)

\* functools.reduce(stack.step, backlog) on a non-empty backlog: with one
\* element reduce returns it without calling step; with more it calls the
\* bound method step(acc, item), one argument too many for step(self, op),
\* and TypeError is raised.
ReduceRaises(bl) == Len(bl) >= 2

-----------------------------------------------------------------------------
(* Listeners and tasks *)

Handler(kind, id) == [kind |-> kind, id |-> id]

Task(h, p) == [h |-> h, p |-> p]

\* The listeners services registered (Client.spawn): one under the wildcard
\* key None and one under OpCode.Data.
UserListeners(key) ==
    IF key = None THEN << Handler("user", 1) >>
    ELSE IF key = "Data" THEN << Handler("user", 2) >>
    ELSE << >>

\* self._listeners[op] alone, the wildcard listeners left out.
ListenersForOpOnly(op, ackL) ==
    UserListeners(op) \o (IF op = "Ack" THEN ackL ELSE << >>)

\* self._listeners[op] + self._listeners[None]
ListenersFor(op, ackL) ==
    UserListeners(op) \o (IF op = "Ack" THEN ackL ELSE << >>) \o UserListeners(None)

TasksFor(hs, p) == [i \in 1..Len(hs) |-> Task(hs[i], p)]

-----------------------------------------------------------------------------
(* AbstractClient.on_packet *)

\* The state check of on_packet also letting Connected through.
ProcessingConnected(st) == st \in {"Alive", "Discovery", "Connected"}

\* on_packet processes packets only while Discovering or Alive.
Processing(st) == st \in {"Alive", "Discovery"}

\* The Hello branch doing what its second statement spells out: the
\* snapshot's members followed by the local host, then Alive.
from_dataAppending(r, data) ==
    [r EXCEPT !.members = data.s \o << LocalHost >>, !.state = "Alive"]

\* The Hello branch of on_packet, entered with the result record r so far:
\* its first statement, self._network_stack.from_data(...), raises, since
\* BaseNetwork has no attribute from_data.
from_data(r, data) == [r EXCEPT !.raised = "AttributeError"]

\* The listener fan-out of on_packet also taken while Discovering.
DispatchingDiscovery(st) == st \in {"Alive", "Discovery"}

\* on_packet hands packets to the listeners only while Alive.
Dispatching(st) == st = "Alive"

\* What one call of on_packet(p) does from client state st with the stack
\* (mem, bl): the new state and stack, the tasks it created, the packets it
\* handed to the channel, the generator's next value, and the exception that
\* ended it ("none" when it returned).
on_packet(p, st, mem, bl, ackL, counter) ==
    LET dispatched == IF Dispatching(st)
                      THEN TasksFor(ListenersFor(p.op, ackL), p)
                      ELSE << >>
        authored == p.author = LocalHost
        cleanup == IF authored /\ expires(p)
                   THEN << Task(Handler("collect", 0), p) >>
                   ELSE << >>
        base == [state |-> st, members |-> mem, backlog |-> bl,
                 created |-> dispatched \o cleanup, out |-> << >>,
                 counter |-> counter, raised |-> "none"]
    IN
    IF ~ Processing(st) THEN
        [base EXCEPT !.created = << >>]
    ELSE IF authored \/ (p.recipient # LocalHost /\ p.recipient # None) THEN
        base
    ELSE IF st = "Discovery" THEN
        IF p.op \notin {"Hello", "Sync"} THEN
            [base EXCEPT !.backlog = Append(bl, p)]
        ELSE IF p.op = "Sync" THEN
            \* NetworkStack is a name no module of the package defines
            [base EXCEPT !.raised = "NameError"]
        ELSE
            from_data(base, p.data)
    ELSE IF p.op = "Alive" /\ mem = << >> THEN
        \* network.head on the empty list
        [base EXCEPT !.raised = "IndexError"]
    ELSE IF p.op = "Alive" /\ head(mem) = LocalHost THEN
        [base EXCEPT
            !.out = send(response(p, "Hello", into_raw(mem, bl), HelloTtl, counter)),
            !.counter = CounterAfter(0, counter)]
    ELSE IF p.op = "Dead" THEN
        IF p.data.tag = "str" /\ Contains(mem, p.data.str)
        THEN [base EXCEPT !.members = RemoveFirst(mem, p.data.str)]
        ELSE [base EXCEPT !.raised = "ValueError"]
    ELSE
        base

-----------------------------------------------------------------------------
(* The relay's messages *)

\* The data a packet of each op code carries: a Dead names a host, a Hello
\* or Sync carries a stack snapshot.
DataOf(op) ==
    IF op = "Dead" THEN StrData(LocalHost)
    ELSE IF op \in {"Hello", "Sync"} THEN StackData(<< Peer >>, << >>)
    ELSE NullData

\* A joining peer's Alive packet is the first packet it builds, so it
\* carries the falsy sequence number 0.  1 is never the number of a packet
\* sent with an ack callback (on_ready draws two numbers before send_packet
\* can run).
SeqOf(op) == IF op = "Alive" THEN 0 ELSE 1

\* The head's Hello to a host that rejoins without having been removed: the
\* snapshot still holds the local host.
Rejoin ==
    Msg("Hello", StackData(<< Peer, LocalHost >>, << >>), Peer, LocalHost,
        HelloTtl, 1)

\* Every op code, broadcast by the peer.
PeerBroadcasts ==
    { Msg(op, DataOf(op), Peer, None, NoTtl, SeqOf(op)) : op \in OpCode \ {"Heartbeat"} }

\* The peer's other messages: addressed to the local host or to a third host.
PeerOthers ==
    { Msg("Sync", DataOf("Sync"), Peer, LocalHost, SyncTtl, 1),
      Msg("Data", NullData, Peer, Stranger, NoTtl, 1),
      Rejoin }

\* The local host's own messages coming back from the relay.
Echoes ==
    { Msg("Data", NullData, LocalHost, None, NoTtl, 1),
      Msg("Alive", NullData, LocalHost, None, AliveTtl, 1) }

BaseMessages == PeerBroadcasts \cup PeerOthers \cup Echoes

\* Acks that carry the number of a packet sent with an ack callback: from
\* the peer (broadcast, to the local host, to a third host) and an echo.
AckMessages(ackL) ==
    { Msg("Ack", NullData, r[1], r[2], NoTtl, ackL[i].id) :
        r \in { << Peer, None >>, << Peer, LocalHost >>, << Peer, Stranger >>,
                << LocalHost, None >> },
        i \in 1..Len(ackL) }

-----------------------------------------------------------------------------
(* Operations *)

Op(kind, p, raised) == [kind |-> kind, pkt |-> p, raised |-> raised]

\* The client after Client.__init__.
ClientInit ==
    /\ state = "Dead"
    /\ members = << >>
    /\ backlog = << >>
    /\ ackListeners = << >>
    /\ tasks = << >>
    /\ seqCounter = 0
    /\ cbCalls = [s \in 0..MaxSeq |-> 0]
    /\ pc = "init"
    /\ steps = 0
    /\ waited = 0
    /\ syncPacket = NoPacket
    /\ out = << >>
    /\ last = Op("init", NoPacket, "none")
    /\ nSend = 0

\* Every client of the network after Client.__init__; nothing posted yet.
NetInit ==
    /\ hosts = [h \in {LocalHost, Peer, Stranger} |->
                    [state |-> "Dead", members |-> << >>, backlog |-> << >>,
                     pc |-> "init", heard |-> FALSE]]
    /\ flight = {}
    /\ sent = {}

\* No packet is being collected.
CollectInit ==
    /\ now = 0
    /\ cpkt = [timestamp |-> 0, ttl |-> NoTtl]
    /\ collected = FALSE
    /\ coll = [i \in 1..2 |-> [pc |-> "idle", wake |-> 0]]
    /\ deleted = << >>

\* The reader has taken nothing, no packet was built, no Task was started.
AuxInit ==
    /\ reader = "running"
    /\ inbox = << >>
    /\ pos = 0
    /\ calls = << >>
    /\ built = << >>
    /\ trip = [p |-> NoPacket, q |-> NoPacket, at |-> 0, ts |-> 0, stored |-> 0]
    /\ tk = NewLoop(NoCount, FALSE)
    /\ itasks = << >>

Init == ClientInit /\ NetInit /\ CollectInit /\ AuxInit

\* The event loop runs ready callbacks oldest first: the first step of every
\* task on_packet created runs before anything that becomes ready later (a
\* timer, the next message, a call from a service).
Idle == tasks = << >>

\* Client.on_connect
on_connect ==
    /\ pc = "init"
    /\ state' = "Connected"
    /\ pc' = "connected"
    /\ out' = << >>
    /\ last' = Op("on_connect", NoPacket, "none")
    /\ UNCHANGED << members, backlog, ackListeners, tasks, seqCounter, cbCalls,
                    steps, waited, syncPacket, nSend >>
    /\ UNCHANGED << netVars, collectVars, auxVars >>

\* Client.on_ready up to the first suspension of _discover_task: the two
\* packets are built and the Alive packet is sent.
on_ready ==
    /\ pc = "connected"
    /\ Idle
    /\ seqCounter + 1 <= MaxSeq
    /\ state # "Discovery"
    /\ LET alive == Pkt("Alive", LocalHost, None, NullData, AliveTtl,
                        seqCounter, seqCounter)
           sync == Pkt("Sync", LocalHost, None, NullData, SyncTtl,
                       seqCounter + 1, seqCounter + 1)
       IN /\ syncPacket' = sync
          /\ out' = send(alive)
    /\ seqCounter' = seqCounter + 2
    /\ pc' = "alive_sent"
    /\ last' = Op("on_ready", NoPacket, "none")
    /\ UNCHANGED << state, members, backlog, ackListeners, tasks, cbCalls,
                    steps, waited, nSend >>
    /\ UNCHANGED << netVars, collectVars, auxVars >>

\* _discover_task resumes after alive_packet.send() and enters Discovery.
discover_enter ==
    /\ pc = "alive_sent"
    /\ Idle
    /\ state' = "Discovery"
    /\ pc' = "waiting"
    /\ steps' = 0
    /\ out' = << >>
    /\ last' = Op("discover_enter", NoPacket, "none")
    /\ UNCHANGED << members, backlog, ackListeners, tasks, seqCounter, cbCalls,
                    waited, syncPacket, nSend >>
    /\ UNCHANGED << netVars, collectVars, auxVars >>

\* The k-th value of the generator (1 for _ in range(15)).
SleepSeconds(k) == 1

\* The timeout fallback of _discover_task, up to its next suspension or its
\* end: the stack, the state, the position, the packets sent, the exception.
Fallback(st, mem, bl, sync) ==
    IF bl = << >> THEN
        [stack |-> reset(<< LocalHost >>), state |-> "Alive", pc |-> "done",
         out |-> << >>, raised |-> "none", kind |-> "fallback_reset"]
    ELSE IF ReduceRaises(bl) THEN
        [stack |-> [members |-> mem, backlog |-> bl], state |-> st,
         pc |-> "raised", out |-> << >>, raised |-> "TypeError",
         kind |-> "fallback_replay"]
    ELSE
        [stack |-> [members |-> mem, backlog |-> bl], state |-> st,
         pc |-> "sync_sent", out |-> send(sync), raised |-> "none",
         kind |-> "fallback_replay"]

\* One turn of _discover_task's wait loop: return when Alive, sleep while
\* the generator yields, fall back when it is exhausted.
discover_step ==
    /\ pc = "waiting"
    /\ Idle
    /\ IF state = "Alive" THEN
            /\ pc' = "done"
            /\ out' = << >>
            /\ last' = Op("discover_return", NoPacket, "none")
            /\ UNCHANGED << state, members, backlog, steps, waited >>
       ELSE IF steps < DiscoverySteps THEN
            /\ steps' = steps + 1
            /\ waited' = waited + SleepSeconds(steps + 1)
            /\ out' = << >>
            /\ last' = Op("sleep", NoPacket, "none")
            /\ UNCHANGED << state, members, backlog, pc >>
       ELSE LET f == Fallback(state, members, backlog, syncPacket) IN
            /\ members' = f.stack.members
            /\ backlog' = f.stack.backlog
            /\ state' = f.state
            /\ pc' = f.pc
            /\ out' = f.out
            /\ last' = Op(f.kind, NoPacket, f.raised)
            /\ UNCHANGED << steps, waited >>
    /\ UNCHANGED << ackListeners, tasks, seqCounter, cbCalls, syncPacket, nSend >>
    /\ UNCHANGED << netVars, collectVars, auxVars >>

\* _discover_task resumes after sync_packet.send().
discover_finish ==
    /\ pc = "sync_sent"
    /\ Idle
    /\ state' = "Alive"
    /\ pc' = "done"
    /\ out' = << >>
    /\ last' = Op("fallback_finish", NoPacket, "none")
    /\ UNCHANGED << members, backlog, ackListeners, tasks, seqCounter, cbCalls,
                    steps, waited, syncPacket, nSend >>
    /\ UNCHANGED << netVars, collectVars, auxVars >>

\* Client._stream_reader_task decodes the well-formed message m and
\* on_packet handles the packet.
receive(m) ==
    /\ Idle
    /\ LET p == from_message(m, seqCounter)
           r == on_packet(p, state, members, backlog, ackListeners,
                          CounterAfter(m.s, seqCounter))
       IN /\ r.counter <= MaxSeq + 1
          /\ Len(r.backlog) <= MaxBacklog
          /\ state' = r.state
          /\ members' = r.members
          /\ backlog' = r.backlog
          /\ tasks' = tasks \o r.created
          /\ seqCounter' = r.counter
          /\ out' = r.out
          /\ last' = Op("on_packet", NoPacket, r.raised)
    /\ UNCHANGED << ackListeners, cbCalls, pc, steps, waited, syncPacket, nSend >>
    /\ UNCHANGED << netVars, collectVars, auxVars >>

\* A message of the relay arrives.
deliver ==
    /\ pc \notin {"init", "closed"}
    /\ \E m \in BaseMessages \cup AckMessages(ackListeners) :
        /\ m.op = "Ack" /\ m.s > 1 => cbCalls[m.s] < MaxCalls
        /\ receive(m)

\* Client.send_packet(op=OpCode.Data, ack_cb=...), called by a service.
send_packet ==
    /\ Idle
    /\ pc # "closed"
    /\ nSend < MaxSend
    /\ state = "Alive"
    /\ seqCounter <= MaxSeq
    /\ \E withCb \in BOOLEAN :
        LET p == Pkt("Data", LocalHost, None, NullData, NoTtl,
                     SeqOrNext(0, seqCounter), SeqOrNext(0, seqCounter))
        IN /\ ackListeners' = IF withCb
                              THEN Append(ackListeners, Handler("inner", p.seq))
                              ELSE ackListeners
           /\ out' = send(p)
           /\ last' = Op("send_packet", NoPacket, "none")
    /\ seqCounter' = CounterAfter(0, seqCounter)
    /\ nSend' = nSend + 1
    /\ UNCHANGED << state, members, backlog, tasks, cbCalls, pc, steps, waited,
                    syncPacket >>
    /\ UNCHANGED << netVars, collectVars, auxVars >>

\* with suppress(ValueError): listeners.remove(x)
RemoveSuppressed(l, x) == IF Contains(l, x) THEN RemoveFirst(l, x) ELSE l

\* The function send_packet's callback receives as _self: inner calls
\* func(func, ...), so it is callback itself, not the inner that was
\* appended to the listeners.
SelfOf(h) == Handler("callback", h.id)

\* The test of send_packet's callback with every Ack passing.
MatchesAny(recieved, h) == TRUE

\* recieved.seq == packet.seq in send_packet's callback; the handler h
\* carries the seq of the packet it was registered for.
Matches(recieved, h) == recieved.seq = h.id

\* The event loop runs the oldest pending task: a transient Ack handler, a
\* user handler, or a cleanup.  The wildcard listener (user handler 1) may
\* answer a packet another host wrote with packet.ack; the Data listener
\* only reads the packet.
run_task ==
    /\ tasks # << >>
    /\ tasks' = Tail(tasks)
    /\ LET t == tasks[1] IN
       IF t.h.kind = "inner" THEN
            /\ IF Matches(t.p, t.h)
               THEN /\ ackListeners' = RemoveSuppressed(ackListeners, SelfOf(t.h))
                    /\ cbCalls' = [cbCalls EXCEPT ![t.h.id] = @ + 1]
                    /\ last' = Op("ack_cb", t.p, "none")
               ELSE /\ UNCHANGED << ackListeners, cbCalls >>
                    /\ last' = Op("ack_skip", NoPacket, "none")
            /\ out' = << >>
            /\ UNCHANGED seqCounter
       ELSE IF t.h = Handler("user", 1) THEN
            \/ /\ out' = << >>
               /\ last' = Op("user", NoPacket, "none")
               /\ UNCHANGED << ackListeners, cbCalls, seqCounter >>
            \/ /\ t.p.author # LocalHost
               /\ CounterAfter(t.p.seq, seqCounter) <= MaxSeq + 1
               /\ out' = send(ack(t.p, NullData, seqCounter))
               /\ seqCounter' = CounterAfter(t.p.seq, seqCounter)
               /\ last' = Op("ack", t.p, "none")
               /\ UNCHANGED << ackListeners, cbCalls >>
       ELSE
            /\ out' = << >>
            /\ last' = Op(t.h.kind, NoPacket, "none")
            /\ UNCHANGED << ackListeners, cbCalls, seqCounter >>
    /\ UNCHANGED << state, members, backlog, pc, steps, waited, syncPacket, nSend >>
    /\ UNCHANGED << netVars, collectVars, auxVars >>

\* The keyword arguments Client._shutdown(self) accepts: none.
ShutdownKeywords == {}

\* Client._shutdown(): a no-op when Dead; otherwise the Dead packet is posted
\* from a fresh event loop and, whether that succeeds or fails, the state is
\* set to Dead.
shutdown_sync(st) == "Dead"

\* Client.shutdown(), called by the application on an Alive client: the
\* connection is closed, then self._shutdown(loop=self.loop) is called and
\* whatever it raises is swallowed.  No task is cancelled.  Handler and
\* cleanup tasks suspend (collect sleeps until the packet expires), so they
\* can be pending when shutdown is called.
shutdown ==
    /\ state = "Alive"
    /\ pc = "done"
    /\ pc' = "closed"
    /\ IF {"loop"} \subseteq ShutdownKeywords
       THEN /\ state' = shutdown_sync(state)
            /\ last' = Op("shutdown", NoPacket, "none")
       ELSE /\ state' = state
            /\ last' = Op("shutdown", NoPacket, "TypeError")
    /\ out' = << >>
    /\ UNCHANGED << members, backlog, ackListeners, tasks, seqCounter, cbCalls,
                    steps, waited, syncPacket, nSend >>
    /\ UNCHANGED << netVars, collectVars, auxVars >>

Next ==
    \/ on_connect
    \/ on_ready
    \/ discover_enter
    \/ discover_step
    \/ discover_finish
    \/ deliver
    \/ send_packet
    \/ run_task
    \/ shutdown

Spec == Init /\ [][Next]_vars

-----------------------------------------------------------------------------
(* A network of clients on one relay *)

\* Every host runs the same code and differs only in self.hostname, so what
\* host h does with a packet is what the local host does with the packet
\* in which the names h and LocalHost are exchanged.
Hosts == {LocalHost, Peer, Stranger}

Swap(h, x) == IF x = h THEN LocalHost ELSE IF x = LocalHost THEN h ELSE x

SwapNames(h, s) == [i \in 1..Len(s) |-> Swap(h, s[i])]

\* A packet that was sent carries no backlog (Serializable).
SwapPkt(h, p) ==
    [p EXCEPT !.author = Swap(h, @), !.recipient = Swap(h, @),
              !.data = [@ EXCEPT !.str = Swap(h, @), !.s = SwapNames(h, @)]]

SwapPkts(h, s) == [i \in 1..Len(s) |-> SwapPkt(h, s[i])]

\* Packet.payload: the wire message of a packet.
payload(p) == Msg(p.op, p.data, p.author, p.recipient, p.ttl, p.seq)

\* The network model does not track sequence numbers: a host's first packet
\* (its Alive) carries 0 and every later draw of the generator yields NetSeq.
NetSeq == 2

\* on_packet at host h, whose record is c.
on_packet_at(h, p, c) ==
    LET r == on_packet(SwapPkt(h, p), c.state, SwapNames(h, c.members),
                       SwapPkts(h, c.backlog), << >>, NetSeq)
    IN [state |-> r.state, members |-> SwapNames(h, r.members),
        backlog |-> SwapPkts(h, r.backlog), out |-> SwapPkts(h, r.out),
        raised |-> r.raised]

\* The timeout fallback of _discover_task at host h.
FallbackAt(h, c) ==
    LET sync == Pkt("Sync", LocalHost, None, NullData, SyncTtl, NetSeq, NetSeq)
        f == Fallback(c.state, SwapNames(h, c.members), SwapPkts(h, c.backlog), sync)
    IN [state |-> f.state, members |-> SwapNames(h, f.stack.members),
        backlog |-> SwapPkts(h, f.stack.backlog), out |-> SwapPkts(h, f.out),
        pc |-> f.pc]

\* The relay hands a posted message to every client that is connected.
\* on_packet returns before it touches the stack when the packet is the
\* host's own or is addressed to another host, so only the other deliveries
\* are tracked.
Broadcast(ps) ==
    UNION { { [m |-> payload(ps[i]), to |-> g] :
                g \in { k \in Hosts : /\ hosts[k].pc # "init"
                                      /\ k # ps[i].author
                                      /\ ps[i].recipient \in {None, k} } } :
            i \in 1..Len(ps) }

Posted(ps) == { payload(ps[i]) : i \in 1..Len(ps) }

\* The hosts that have connected and whose _discover_task has not ended.
Joining == { h \in Hosts : hosts[h].pc \notin {"init", "done", "raised"} }

\* Client.on_connect at host h.
net_connect(h) ==
    /\ hosts[h].pc = "init"
    /\ Cardinality(Joining) < MaxJoining
    /\ hosts' = [hosts EXCEPT ![h].pc = "connected", ![h].state = "Connected"]
    /\ UNCHANGED << flight, sent, clientVars, collectVars, auxVars >>

\* Client.on_ready at host h: the Alive packet, the first packet the host
\* builds, is posted.
net_ready(h) ==
    /\ hosts[h].pc = "connected"
    /\ LET alive == << Pkt("Alive", h, None, NullData, AliveTtl, 0, 0) >>
       IN /\ flight' = flight \cup Broadcast(send(alive[1]))
          /\ sent' = sent \cup Posted(send(alive[1]))
    /\ hosts' = [hosts EXCEPT ![h].pc = "alive_sent"]
    /\ UNCHANGED << clientVars, collectVars, auxVars >>

\* _discover_task at host h enters Discovery.
net_enter(h) ==
    /\ hosts[h].pc = "alive_sent"
    /\ hosts' = [hosts EXCEPT ![h].pc = "waiting", ![h].state = "Discovery"]
    /\ UNCHANGED << flight, sent, clientVars, collectVars, auxVars >>

\* The wait of _discover_task at host h is over: it returns if the host is
\* Alive and falls back otherwise.
net_timeout(h) ==
    /\ hosts[h].pc = "waiting"
    /\ IF hosts[h].state = "Alive"
       THEN /\ hosts' = [hosts EXCEPT ![h].pc = "done"]
            /\ UNCHANGED << flight, sent >>
       ELSE LET f == FallbackAt(h, hosts[h]) IN
            /\ hosts' = [hosts EXCEPT ![h].state = f.state,
                                      ![h].members = f.members,
                                      ![h].backlog = f.backlog,
                                      ![h].pc = f.pc]
            /\ flight' = flight \cup Broadcast(f.out)
            /\ sent' = sent \cup Posted(f.out)
    /\ UNCHANGED << clientVars, collectVars, auxVars >>

\* _discover_task at host h resumes after sync_packet.send().
net_finish(h) ==
    /\ hosts[h].pc = "sync_sent"
    /\ hosts' = [hosts EXCEPT ![h].pc = "done", ![h].state = "Alive"]
    /\ UNCHANGED << flight, sent, clientVars, collectVars, auxVars >>

\* The host with record c, waiting in _discover_task, is handed a Hello or
\* a Sync (Broadcast hands a host only packets of other hosts that are
\* addressed to it or to all).
Hears(c, m) ==
    /\ c.state = "Discovery"
    /\ c.pc = "waiting"
    /\ m.op \in {"Hello", "Sync"}

\* The relay hands a pending message to its host, which decodes it and runs
\* on_packet; heard records that a Hello or Sync reached the host during
\* its wait.
net_deliver(d) ==
    /\ d \in flight
    /\ LET h == d.to
           r == on_packet_at(h, from_message(d.m, NetSeq), hosts[h])
       IN /\ hosts' = [hosts EXCEPT ![h].state = r.state,
                                    ![h].members = r.members,
                                    ![h].backlog = r.backlog,
                                    ![h].heard = @ \/ Hears(hosts[h], d.m)]
          /\ flight' = (flight \ {d}) \cup Broadcast(r.out)
          /\ sent' = sent \cup Posted(r.out)
    /\ UNCHANGED << clientVars, collectVars, auxVars >>

NetNext ==
    \/ \E h \in Hosts : net_connect(h)
    \/ \E h \in Hosts : net_ready(h)
    \/ \E h \in Hosts : net_enter(h)
    \/ \E h \in Hosts : net_timeout(h)
    \/ \E h \in Hosts : net_finish(h)
    \/ \E d \in flight : net_deliver(d)

SpecNet == Init /\ [][NetNext]_vars

-----------------------------------------------------------------------------
(* on_packet as a function of the client's state and stack *)

\* The stacks on_packet is applied to: rosters of at most MaxRoster distinct
\* hosts.
Rosters ==
    UNION { { s \in [1..n -> Hosts] : \A i, j \in 1..n : s[i] = s[j] => i = j } :
            n \in 0..MaxRoster }

\* Dead packets of the peer: naming each host, and naming none.
DeadMessages ==
    { Msg("Dead", d, Peer, None, NoTtl, 1) :
        d \in { StrData(h) : h \in Hosts } \cup { NullData } }

\* The packet _inner_shutdown posts for host h: a Dead packet built with
\* author, op and ttl only, so its data is None.
inner_shutdown(h, counter) ==
    Pkt("Dead", h, None, NullData, DeadTtl, SeqOrNext(0, counter),
        SeqOrNext(0, counter))

\* The Dead packet of the peer when it shuts down, as the relay hands it on.
ShutdownMessages == { payload(inner_shutdown(Peer, NetSeq)) }

\* A client in any state, holding any roster, that has built its two
\* discovery packets.
InitOnPacket ==
    /\ state \in State
    /\ members \in Rosters
    /\ backlog = << >>
    /\ ackListeners = << >>
    /\ tasks = << >>
    /\ seqCounter = 2
    /\ cbCalls = [s \in 0..MaxSeq |-> 0]
    /\ pc = "done"
    /\ steps = 0
    /\ waited = 0
    /\ syncPacket = NoPacket
    /\ out = << >>
    /\ last = Op("init", NoPacket, "none")
    /\ nSend = 0
    /\ NetInit
    /\ CollectInit
    /\ AuxInit

\* One message is decoded and handled by on_packet.
on_packet_call ==
    /\ last.kind = "init"
    /\ \E m \in BaseMessages \cup DeadMessages \cup ShutdownMessages : receive(m)

SpecOnPacket == InitOnPacket /\ [][on_packet_call]_vars

-----------------------------------------------------------------------------
(* Packet.collect: the cleanup of one self-authored packet with a TTL *)

\* time.time() is a float; the clock advances in ticks of half a second.
TicksPerSecond == 2

\* timestamp + ttl, in ticks.
DeadAt(p) == (p.timestamp + p.ttl) * TicksPerSecond

\* int(dead_at - time.time()): the whole seconds left at tick t.
SleepFor(p, t) == (DeadAt(p) - t) \div TicksPerSecond

\* A packet stamped at second 0 with a ttl of 1..MaxTtl seconds; on_packet
\* may receive its echo, and schedule collect(), at any later time.
InitCollect ==
    /\ ClientInit
    /\ NetInit
    /\ now = 0
    /\ cpkt \in { [timestamp |-> 0, ttl |-> n] : n \in 1..MaxTtl }
    /\ collected = FALSE
    /\ coll = [i \in 1..2 |-> [pc |-> "idle", wake |-> 0]]
    /\ deleted = << >>
    /\ AuxInit

\* Time passes.
tick ==
    /\ now < MaxClock
    /\ now' = now + 1
    /\ UNCHANGED << cpkt, collected, coll, deleted, clientVars, netVars, auxVars >>

\* The i-th call of collect() runs up to its first suspension: it returns
\* if the packet is already collected; otherwise it marks the packet, and
\* deletes the message at once if the packet is dead or goes to sleep.
collect_start(i) ==
    /\ coll[i].pc = "idle"
    /\ IF collected THEN
            /\ coll' = [coll EXCEPT ![i].pc = "done"]
            /\ UNCHANGED << collected, deleted >>
       ELSE /\ collected' = TRUE
            /\ IF now >= DeadAt(cpkt)
               THEN /\ deleted' = Append(deleted, now)
                    /\ coll' = [coll EXCEPT ![i].pc = "done"]
               ELSE /\ coll' = [coll EXCEPT
                                  ![i].pc = "sleeping",
                                  ![i].wake = now + SleepFor(cpkt, now) * TicksPerSecond]
                    /\ UNCHANGED deleted
    /\ UNCHANGED << now, cpkt, clientVars, netVars, auxVars >>

\* asyncio.sleep is over for the i-th call: it attempts the deletion.
collect_wake(i) ==
    /\ coll[i].pc = "sleeping"
    /\ now >= coll[i].wake
    /\ deleted' = Append(deleted, now)
    /\ coll' = [coll EXCEPT ![i].pc = "done"]
    /\ UNCHANGED << now, cpkt, collected, clientVars, netVars, auxVars >>

CollectNext ==
    \/ tick
    \/ \E i \in 1..2 : collect_start(i)
    \/ \E i \in 1..2 : collect_wake(i)

SpecCollect == InitCollect /\ [][CollectNext]_vars

-----------------------------------------------------------------------------
(* The inbound path: Client._stream_reader_task, Packet.from_message and   *)
(* the on_packet invocations it dispatches                                 *)

\* The keys from_message reads from the payload.
RequiredFields == {"f", "op", "t", "d", "ttl", "ts", "s"}

\* A raw message: whether its content is shorter than 13 characters, whether
\* it is JSON, the keys of the payload, whether the op is an int and whether
\* that int is an OpCode; m is the payload of a well-formed message.
Raw(short, json, fields, opInt, opKnown, m) ==
    [short |-> short, json |-> json, fields |-> fields, opInt |-> opInt,
     opKnown |-> opKnown, m |-> m]

WellFormed(raw) ==
    /\ ~ raw.short
    /\ raw.json
    /\ RequiredFields \subseteq raw.fields
    /\ raw.opInt
    /\ raw.opKnown

\* What Packet.from_message raises on a raw message ("none": it returns a
\* packet).  json.JSONDecodeError is a ValueError; a missing key is a
\* KeyError; Packet.__init__ raises TypeError on an op that is not an int,
\* and OpCode(op) raises ValueError on an int that is no op code.
DecodeError(raw) ==
    IF raw.short THEN "ValueError"
    ELSE IF ~ raw.json THEN "ValueError"
    ELSE IF ~ (RequiredFields \subseteq raw.fields) THEN "KeyError"
    ELSE IF ~ raw.opInt THEN "TypeError"
    ELSE IF ~ raw.opKnown THEN "ValueError"
    ELSE "none"

\* The exceptions _stream_reader_task catches around from_message.
ReaderCatches == {"ValueError"}

\* The raw messages of the relay: two well-formed messages of the peer and
\* one malformed message of each kind.
RawMessages ==
    LET alive == Msg("Alive", NullData, Peer, None, NoTtl, 0)
        data == Msg("Data", NullData, Peer, None, NoTtl, 1)
    IN { Raw(FALSE, TRUE, RequiredFields, TRUE, TRUE, alive),
         Raw(FALSE, TRUE, RequiredFields, TRUE, TRUE, data),
         Raw(TRUE, TRUE, RequiredFields, TRUE, TRUE, data),
         Raw(FALSE, FALSE, RequiredFields, TRUE, TRUE, data),
         Raw(FALSE, TRUE, RequiredFields \ {"ttl"}, TRUE, TRUE, data),
         Raw(FALSE, TRUE, RequiredFields, FALSE, FALSE, data),
         Raw(FALSE, TRUE, RequiredFields, TRUE, FALSE, data) }

\* The sequences of 1..n elements of S.
SeqsUpTo(S, n) == UNION { [1..k -> S] : k \in 1..n }

\* A client that discovered alone (fallback with an empty backlog), and the
\* messages the relay is going to deliver.
InitReader ==
    /\ state = "Alive"
    /\ members = << LocalHost >>
    /\ backlog = << >>
    /\ ackListeners = << >>
    /\ tasks = << >>
    /\ seqCounter = 2
    /\ cbCalls = [s \in 0..MaxSeq |-> 0]
    /\ pc = "done"
    /\ steps = DiscoverySteps
    /\ waited = DiscoverySteps
    /\ syncPacket = Pkt("Sync", LocalHost, None, NullData, SyncTtl, 1, 1)
    /\ out = << >>
    /\ last = Op("fallback_reset", NoPacket, "none")
    /\ nSend = 0
    /\ NetInit
    /\ CollectInit
    /\ reader = "running"
    /\ inbox \in SeqsUpTo(RawMessages, MaxInbox)
    /\ pos = 0
    /\ calls = << >>
    /\ built = << >>
    /\ trip = [p |-> NoPacket, q |-> NoPacket, at |-> 0, ts |-> 0, stored |-> 0]
    /\ tk = NewLoop(NoCount, FALSE)
    /\ itasks = << >>

\* One turn of _stream_reader_task: the next message is decoded; the packet
\* is dispatched (an on_packet invocation is scheduled, not awaited), or the
\* message is dropped on an exception the reader catches, or the exception
\* ends the reader task.
read_message ==
    /\ reader = "running"
    /\ pos < Len(inbox)
    /\ pos' = pos + 1
    /\ LET raw == inbox[pos + 1]
           e == DecodeError(raw)
       IN IF e = "none" THEN
               /\ calls' = Append(calls, [p |-> from_message(raw.m, seqCounter),
                                          pc |-> "scheduled"])
               /\ seqCounter' = CounterAfter(raw.m.s, seqCounter)
               /\ UNCHANGED reader
          ELSE IF e \in ReaderCatches THEN
               UNCHANGED << calls, seqCounter, reader >>
          ELSE /\ reader' = "died"
               /\ UNCHANGED << calls, seqCounter >>
    /\ UNCHANGED << state, members, backlog, ackListeners, tasks, cbCalls, pc,
                    steps, waited, syncPacket, out, last, nSend, inbox >>
    /\ UNCHANGED << netVars, collectVars, packetVars, taskVars >>

\* The i-th on_packet invocation starts and runs up to its suspension in
\* packet.respond, or to its end.  Invocations start in dispatch order.
on_packet_begin(i) ==
    /\ calls[i].pc = "scheduled"
    /\ \A j \in 1..(i - 1) : calls[j].pc # "scheduled"
    /\ LET r == on_packet(calls[i].p, state, members, backlog, ackListeners,
                          seqCounter)
       IN /\ state' = r.state
          /\ members' = r.members
          /\ backlog' = r.backlog
          /\ tasks' = tasks \o r.created
          /\ seqCounter' = r.counter
          /\ out' = r.out
          /\ last' = Op("on_packet", NoPacket, r.raised)
          /\ calls' = [calls EXCEPT ![i].pc =
                          IF r.out # << >> THEN "sending"
                          ELSE IF r.raised = "none" THEN "returned"
                          ELSE "raised"]
    /\ UNCHANGED << ackListeners, cbCalls, pc, steps, waited, syncPacket, nSend,
                    reader, inbox, pos >>
    /\ UNCHANGED << netVars, collectVars, packetVars, taskVars >>

\* The send of the i-th invocation's Hello is over and on_packet returns.
on_packet_resume(i) ==
    /\ calls[i].pc = "sending"
    /\ calls' = [calls EXCEPT ![i].pc = "returned"]
    /\ UNCHANGED << clientVars, reader, inbox, pos >>
    /\ UNCHANGED << netVars, collectVars, packetVars, taskVars >>

ReaderNext ==
    \/ read_message
    \/ \E i \in 1..Len(calls) : on_packet_begin(i)
    \/ \E i \in 1..Len(calls) : on_packet_resume(i)

SpecReader == InitReader /\ [][ReaderNext]_vars

-----------------------------------------------------------------------------
(* Packet construction and the encode/decode round trip                    *)

\* Packet.payload at time t: the fields of the packet, and 'ts' the time of
\* the call (the timestamp attribute is not read).
encode(p, t) == [m |-> payload(p), ts |-> t]

\* Packet.from_message on an encoding: the packet, and its timestamp
\* int(payload['ts']).
decode(e, counter) == [p |-> from_message(e.m, counter), timestamp |-> e.ts]

\* The values a packet's fields are drawn from.
Recipients == {None, Peer}

Ttls == {NoTtl, HelloTtl}

Datas == {NullData, StrData(Peer)}

\* Packet.__init__ with seq = given (0: none carried over).
construct(given) ==
    /\ Len(built) < MaxBuilt
    /\ built' = Append(built, [given |-> given,
                               seq |-> SeqOrNext(given, seqCounter)])
    /\ seqCounter' = CounterAfter(given, seqCounter)
    /\ UNCHANGED << state, members, backlog, ackListeners, tasks, cbCalls, pc,
                    steps, waited, syncPacket, out, last, nSend, trip >>
    /\ UNCHANGED << netVars, collectVars, readerVars, taskVars >>

\* A packet of the local host that carries the i-th constructed sequence
\* number and was constructed at time stored is encoded at time at, and the
\* encoding is decoded again (the relay's echo).
round_trip(i, op, recipient, data, ttl, stored, at) ==
    /\ Len(built) < MaxEchoed
    /\ stored <= at
    /\ LET p == Pkt(op, LocalHost, recipient, data, ttl, built[i].seq,
                    built[i].seq)
           d == decode(encode(p, at), seqCounter)
       IN /\ trip' = [p |-> p, q |-> d.p, at |-> at, ts |-> d.timestamp,
                      stored |-> stored]
          /\ built' = Append(built, [given |-> p.seq, seq |-> d.p.seq])
          /\ seqCounter' = CounterAfter(p.seq, seqCounter)
    /\ UNCHANGED << state, members, backlog, ackListeners, tasks, cbCalls, pc,
                    steps, waited, syncPacket, out, last, nSend >>
    /\ UNCHANGED << netVars, collectVars, readerVars, taskVars >>

\* Constructions alone, with and without a carried-over seq.
PacketNext == \E given \in 0..MaxSeq : construct(given)

SpecPacket == Init /\ [][PacketNext]_vars

\* Constructions and round trips.
TripNext ==
    \/ \E given \in 0..MaxSeq : construct(given)
    \/ \E i \in 1..Len(built), op \in OpCode, recipient \in Recipients,
          data \in Datas, ttl \in Ttls, stored \in 0..MaxTime,
          at \in 0..MaxTime :
          round_trip(i, op, recipient, data, ttl, stored, at)

SpecTrip == Init /\ [][TripNext]_vars

-----------------------------------------------------------------------------
(* ext.tasks.Task: the internal task, start, stop, cancel and restart      *)

\* The parameters of the nested _get_loop_function(self, name), and the
\* arguments _loop calls it with.
LoopFunctionParams == 2

LoopFunctionArgs == 1

\* An internal task as create_task returns it: its position in _loop, the
\* pending cancellation, the restart_when_over callbacks added to it,
\* whether _loop's body was entered, how often the registered before_loop
\* and after_loop coroutines were called, and the value of
\* is_being_cancelled the after_loop coroutine saw.
NewTask ==
    [pc |-> "new", cancel |-> FALSE, callbacks |-> 0, entered |-> FALSE,
     before |-> 0, after |-> 0, afterSaw |-> "none", cancelled |-> FALSE]

Running(t, its) == t.task # 0 /\ its[t.task].pc # "done"

\* Task._can_be_cancelled
can_be_cancelled(t, its) == ~ t.cancelling /\ Running(t, its)

\* The calls of the registered coroutine that _get_loop_function(name)
\* makes: the call of the nested function raises TypeError, which
\* suppress(Exception) swallows, unless it is given all its parameters.
get_loop_function(t) ==
    IF LoopFunctionArgs # LoopFunctionParams THEN 0
    ELSE IF t.hooks THEN 1 ELSE 0

\* Task.start without the test of the running internal task.
start_unguarded(t, its) ==
    [tk |-> [t EXCEPT !.task = Len(its) + 1, !.raised = "none"],
     itasks |-> Append(its, NewTask)]

\* Task.start: the object and the internal tasks after the call.
start_on(t, its) ==
    IF Running(t, its)
    THEN [tk |-> [t EXCEPT !.raised = "RuntimeError"], itasks |-> its]
    ELSE [tk |-> [t EXCEPT !.task = Len(its) + 1, !.raised = "none"],
          itasks |-> Append(its, NewTask)]

\* The finally clause of _loop, and the end of the internal task.
finish(t, task, cancelled) ==
    LET n == get_loop_function(t)
    IN [tk |-> [t EXCEPT !.cancelling = FALSE, !.current_loop = 0,
                         !.stop = FALSE, !.last = "step"],
        task |-> [task EXCEPT !.pc = "done", !.cancelled = cancelled,
                              !.after = @ + n,
                              !.afterSaw = IF n = 0 THEN @
                                           ELSE IF cancelled THEN "TRUE"
                                           ELSE "FALSE"]]

\* A Task with or without a count and with or without hooks, not started.
InitTask ==
    /\ ClientInit
    /\ NetInit
    /\ CollectInit
    /\ reader = "running"
    /\ inbox = << >>
    /\ pos = 0
    /\ calls = << >>
    /\ built = << >>
    /\ trip = [p |-> NoPacket, q |-> NoPacket, at |-> 0, ts |-> 0, stored |-> 0]
    /\ \E count \in {NoCount, MaxLoops}, hooks \in BOOLEAN :
          tk = NewLoop(count, hooks)
    /\ itasks = << >>

TaskUnchanged ==
    UNCHANGED << clientVars, netVars, collectVars, readerVars, packetVars >>

\* Task.start()
start ==
    /\ LET r == start_on(tk, itasks)
       IN /\ Len(r.itasks) <= MaxTasks
          /\ tk' = [r.tk EXCEPT !.last = "start"]
          /\ itasks' = r.itasks
    /\ TaskUnchanged

\* Task.stop()
stop ==
    /\ tk' = [tk EXCEPT !.stop = IF Running(tk, itasks) THEN TRUE ELSE @,
                        !.last = "stop", !.raised = "none"]
    /\ UNCHANGED itasks
    /\ TaskUnchanged

\* Task.cancel()
cancel ==
    /\ tk' = [tk EXCEPT !.last = "cancel", !.raised = "none"]
    /\ itasks' = IF can_be_cancelled(tk, itasks)
                 THEN [itasks EXCEPT ![tk.task].cancel = TRUE]
                 ELSE itasks
    /\ TaskUnchanged

\* Task.restart()
restart ==
    /\ can_be_cancelled(tk, itasks) => itasks[tk.task].callbacks < MaxCallbacks
    /\ tk' = [tk EXCEPT !.last = "restart", !.raised = "none"]
    /\ itasks' = IF can_be_cancelled(tk, itasks)
                 THEN [itasks EXCEPT ![tk.task].cancel = TRUE,
                                     ![tk.task].callbacks = @ + 1]
                 ELSE itasks
    /\ TaskUnchanged

\* The first step of the internal task i: a task cancelled before it ran
\* ends without entering _loop; otherwise before_loop is attempted and the
\* coroutine is started.
task_begin(i) ==
    /\ itasks[i].pc = "new"
    /\ IF itasks[i].cancel
       THEN /\ itasks' = [itasks EXCEPT ![i].pc = "done",
                                        ![i].cancelled = TRUE]
            /\ tk' = [tk EXCEPT !.last = "step"]
       ELSE /\ itasks' = [itasks EXCEPT ![i].pc = "coro",
                                        ![i].entered = TRUE,
                                        ![i].before = @ + get_loop_function(tk)]
            /\ tk' = [tk EXCEPT !.last = "step"]
    /\ TaskUnchanged

\* The coroutine of the internal task i returns (or the cancellation is
\* thrown into it): _loop exits on the stop flag or on the count, or sleeps.
coro_return(i) ==
    /\ itasks[i].pc = "coro"
    /\ IF itasks[i].cancel THEN
            LET f == finish([tk EXCEPT !.cancelling = TRUE], itasks[i], TRUE)
            IN tk' = f.tk /\ itasks' = [itasks EXCEPT ![i] = f.task]
       ELSE IF tk.stop THEN
            LET f == finish(tk, itasks[i], FALSE)
            IN tk' = f.tk /\ itasks' = [itasks EXCEPT ![i] = f.task]
       ELSE IF tk.current_loop + 1 = tk.count THEN
            LET f == finish([tk EXCEPT !.current_loop = @ + 1], itasks[i], FALSE)
            IN tk' = f.tk /\ itasks' = [itasks EXCEPT ![i] = f.task]
       ELSE /\ tk.current_loop < MaxLoops
            /\ tk' = [tk EXCEPT !.current_loop = @ + 1, !.last = "step"]
            /\ itasks' = [itasks EXCEPT ![i].pc = "sleeping"]
    /\ TaskUnchanged

\* asyncio.sleep of the internal task i is over (or the cancellation is
\* thrown into it): the coroutine is started again.
sleep_return(i) ==
    /\ itasks[i].pc = "sleeping"
    /\ IF itasks[i].cancel THEN
            LET f == finish([tk EXCEPT !.cancelling = TRUE], itasks[i], TRUE)
            IN tk' = f.tk /\ itasks' = [itasks EXCEPT ![i] = f.task]
       ELSE /\ tk' = [tk EXCEPT !.last = "step"]
            /\ itasks' = [itasks EXCEPT ![i].pc = "coro"]
    /\ TaskUnchanged

\* A restart_when_over callback of the finished internal task i runs.
restart_when_over(i) ==
    /\ itasks[i].pc = "done"
    /\ itasks[i].callbacks > 0
    /\ LET r == start_on(tk, [itasks EXCEPT ![i].callbacks = @ - 1])
       IN /\ Len(r.itasks) <= MaxTasks
          /\ tk' = [r.tk EXCEPT !.last = "callback"]
          /\ itasks' = r.itasks
    /\ TaskUnchanged

TaskNext ==
    \/ start
    \/ stop
    \/ cancel
    \/ restart
    \/ \E i \in 1..Len(itasks) : task_begin(i)
    \/ \E i \in 1..Len(itasks) : coro_return(i)
    \/ \E i \in 1..Len(itasks) : sleep_return(i)
    \/ \E i \in 1..Len(itasks) : restart_when_over(i)

SpecTask == InitTask /\ [][TaskNext]_vars

-----------------------------------------------------------------------------
(* Properties *)

\* The messages the relay can deliver in the current state.
Deliverable == BaseMessages \cup AckMessages(ackListeners)

\* A pending task that runs a listener (not a cleanup).
IsHandlerTask(t) == t.h.kind \in {"user", "inner"}

\* m is written by another host and broadcast or addressed to the local host.
ForUs(m) == m.f # LocalHost /\ m.t \in {None, LocalHost}

\* C1: echo suppression -- no listener, op-code or wildcard, is ever
\* scheduled for a packet whose author is the local host.
C1_EchoSuppression ==
    \A i \in 1..Len(tasks) :
        IsHandlerTask(tasks[i]) => tasks[i].p.author # LocalHost

\* C2: no listener is ever scheduled for a packet addressed to a specific
\* host other than the local host.
C2_AddressedElsewhere ==
    \A i \in 1..Len(tasks) :
        IsHandlerTask(tasks[i]) => tasks[i].p.recipient \in {None, LocalHost}

\* C3: ack correlation is at most once -- the ack callback of a sent packet
\* is invoked at most once, and once it has been invoked its transient
\* handler is no longer among the Ack listeners.
C3_AckAtMostOnce ==
    \A s \in DOMAIN cbCalls :
        /\ cbCalls[s] <= 1
        /\ cbCalls[s] = 1 => ~ Contains(ackListeners, Handler("inner", s))

\* C4: packet.ack sends exactly one packet: an Ack from the local host to
\* the author of the acknowledged packet, carrying the sequence number that
\* packet arrived with, 0 included.
C4_AckEchoesSeq ==
    last.kind = "ack" =>
        /\ Len(out) = 1
        /\ out[1].op = "Ack"
        /\ out[1].author = LocalHost
        /\ out[1].recipient = last.pkt.author
        /\ out[1].seq = last.pkt.wire

\* C5: once _discover_task has ended after an unanswered wait, the client
\* is Alive, whatever the backlog held.
C5_FallbackReachesAlive ==
    pc \in {"done", "raised"} => state = "Alive"

\* C6: the fallback taken with an empty backlog leaves members = [localHost],
\* an empty backlog and the state Alive.
C6_FallbackEmptyBacklog ==
    last.kind = "fallback_reset" =>
        /\ members = << LocalHost >>
        /\ backlog = << >>
        /\ state = "Alive"

C6_Witness ==
    /\ last.kind = "fallback_reset"
    /\ steps = DiscoverySteps
    /\ pc = "done"

\* C7: a Hello from another host received in Discovery sets members to the
\* snapshot's members followed by the local host, and the state to Alive.
C7_HelloBootstrap ==
    [][\A m \in Deliverable :
         (receive(m) /\ state = "Discovery" /\ m.op = "Hello" /\ ForUs(m))
            => /\ members' = m.d.s \o << LocalHost >>
               /\ state' = "Alive"]_vars

\* C8: a Sync from another host received in Discovery replaces the stack by
\* the snapshot it carries and sets the state to Alive.
C8_SyncReplaces ==
    [][\A m \in Deliverable :
         (receive(m) /\ state = "Discovery" /\ m.op = "Sync" /\ ForUs(m))
            => /\ members' = m.d.s
               /\ backlog' = m.d.b
               /\ state' = "Alive"]_vars

\* C9: while the client is Alive its members are not empty and contain the
\* local host.
C9_AliveHasLocal ==
    state = "Alive" => members # << >> /\ Contains(members, LocalHost)

C11_SingleResponder ==
    \A j \in Hosts :
        Cardinality({ m \in sent : m.op = "Hello" /\ m.t = j }) <= 1

\* All Alive clients hold the same members, and every Alive host is in them.
Converged ==
    \A h \in Hosts : hosts[h].state = "Alive" =>
        \A g \in Hosts : hosts[g].state = "Alive" =>
            /\ hosts[g].members = hosts[h].members
            /\ Contains(hosts[h].members, g)

\* No host is joining and the relay has handed over every message.
Quiescent ==
    /\ flight = {}
    /\ \A h \in Hosts : hosts[h].pc \in {"init", "done", "raised"}

\* C12: membership convergence -- once the hosts that joined have finished
\* joining and every message has been handed over, all Alive clients hold
\* the same members sequence, which contains every Alive host.
C12_Convergence == Quiescent => Converged

Stimuli == BaseMessages \cup DeadMessages \cup ShutdownMessages

\* C14: while the state is Dead, Connected or Dying, on_packet is a no-op
\* for every packet: it schedules no handler and no cleanup, sends nothing
\* and leaves the stack and the state unchanged; tasks are only scheduled
\* while the state is Alive or Discovery.
C14_DropOutsideDiscoveryAlive ==
    [][\A m \in Stimuli :
         receive(m) =>
            /\ state \in {"Dead", "Connected", "Dying"} =>
                  /\ tasks' = tasks
                  /\ out' = << >>
                  /\ members' = members
                  /\ backlog' = backlog
                  /\ state' = state
            /\ tasks' # tasks => state \in {"Alive", "Discovery"}]_vars

C14_Witness ==
    /\ last.kind = "on_packet"
    /\ state = "Dying"
    /\ members = << Peer, LocalHost >>
    /\ tasks = << >>

\* How often x occurs in the sequence s.
Count(s, x) == Cardinality({ i \in 1..Len(s) : s[i] = x })

\* How often handler h is registered under the op code op or the wildcard.
Registrations(h, op) ==
    Count(UserListeners(op), h) + Count(UserListeners(None), h)
        + (IF op = "Ack" THEN Count(ackListeners, h) ELSE 0)

\* C15: while Alive, a broadcast packet of another host is handed to each
\* handler registered under its op code and each wildcard handler exactly
\* once, each in a task of its own, and to nothing else.
C15_BroadcastFanOut ==
    [][\A m \in Deliverable :
         (receive(m) /\ state = "Alive" /\ m.t = None /\ m.f # LocalHost)
            => /\ \A i \in 1..Len(tasks') :
                    /\ tasks'[i].p.op = m.op
                    /\ tasks'[i].p.author = m.f
                    /\ tasks'[i].p.wire = m.s
                    /\ Registrations(tasks'[i].h, m.op) = 1
               /\ \A key \in {m.op, None} :
                    \A k \in 1..Len(UserListeners(key)) :
                        Count([i \in 1..Len(tasks') |-> tasks'[i].h],
                              UserListeners(key)[k]) = 1
               /\ m.op = "Ack" =>
                    \A k \in 1..Len(ackListeners) :
                        Count([i \in 1..Len(tasks') |-> tasks'[i].h],
                              ackListeners[k]) = 1]_vars

C15_Witness ==
    /\ last.kind = "on_packet"
    /\ state = "Alive"
    /\ Len(tasks) = 2
    /\ tasks[1].h = Handler("user", 2)
    /\ tasks[2].h = Handler("user", 1)
    /\ tasks[1].p.author = Peer
    /\ tasks[1].p.recipient = None
    /\ tasks[2].p = tasks[1].p

\* C16: membership removal -- while Alive, a Dead packet of another host
\* naming a host that is in members removes that host and keeps the order
\* of the remaining members.
C16_MembershipRemoval ==
    [][\A m \in Stimuli :
         (receive(m) /\ state = "Alive" /\ m.op = "Dead" /\ ForUs(m)
                     /\ m.d.tag = "str" /\ Contains(members, m.d.str))
            => /\ \E i \in 1..Len(members) :
                    /\ members[i] = m.d.str
                    /\ members' = SubSeq(members, 1, i - 1)
                                    \o SubSeq(members, i + 1, Len(members))
               /\ ~ Contains(members', m.d.str)
               /\ state' = "Alive"]_vars

C16_Witness ==
    /\ last.kind = "on_packet"
    /\ last.raised = "none"
    /\ state = "Alive"
    /\ members = << LocalHost, Peer >>
    /\ tasks # << >>
    /\ tasks[1].p.op = "Dead"
    /\ tasks[1].p.data = StrData(Stranger)

\* C17: removing an absent host is a no-op -- while Alive, a Dead packet
\* naming a host that is not in members, or naming none, leaves members and
\* backlog unchanged and raises nothing out of on_packet.
C17_RemoveAbsent ==
    [][\A m \in Deliverable :
         (receive(m) /\ state = "Alive" /\ m.op = "Dead" /\ ForUs(m)
                     /\ (m.d.tag # "str" \/ ~ Contains(members, m.d.str)))
            => /\ members' = members
               /\ backlog' = backlog
               /\ last'.raised = "none"]_vars

\* C18: after shutdown() has returned on an Alive client, the state is
\* Dead.
C18_ShutdownDead ==
    pc = "closed" => state = "Dead"

\* C19: after shutdown() has returned, no handler task and no cleanup task
\* created by on_packet is still pending.
C19_ShutdownCancels ==
    pc = "closed" => tasks = << >>

\* C20: expiry cleanup -- the deletion of the relay-side message is
\* attempted at most once, and not before timestamp + ttl, even when
\* collect() is invoked twice on the same packet; once both invocations have
\* ended it has been attempted exactly once.
C20_ExpiryCleanup ==
    /\ Len(deleted) <= 1
    /\ \A k \in 1..Len(deleted) : deleted[k] >= DeadAt(cpkt)
    /\ (\A i \in 1..2 : coll[i].pc = "done") => Len(deleted) = 1

\* The well-formed messages among the first n of the inbox, in order.
RECURSIVE WellFormedPrefix(_)
WellFormedPrefix(n) ==
    IF n = 0 THEN << >>
    ELSE IF WellFormed(inbox[n])
         THEN Append(WellFormedPrefix(n - 1), inbox[n].m)
         ELSE WellFormedPrefix(n - 1)

\* C21: a malformed inbound message produces no on_packet call and does not
\* stop inbound processing -- the reader keeps running, and the on_packet
\* invocations are exactly those of the well-formed messages taken so far.
C21_MalformedDropped ==
    /\ reader = "running"
    /\ Len(calls) = Len(WellFormedPrefix(pos))
    /\ \A k \in 1..Len(calls) :
          /\ calls[k].p.op = WellFormedPrefix(pos)[k].op
          /\ calls[k].p.wire = WellFormedPrefix(pos)[k].s

\* C30: inbound packets are handled one at a time -- at most one on_packet
\* invocation has begun and not yet returned, so a newly decoded packet is
\* not processed while an earlier invocation is suspended in its send.
C30_OneAtATime ==
    \A i, j \in 1..Len(calls) :
        (calls[i].pc = "sending" /\ calls[j].pc = "sending") => i = j

\* C22: the sequence numbers assigned to packets constructed without a
\* carried-over seq are strictly increasing in construction order (hence
\* pairwise distinct and never reused).
C22_SeqIncreasing ==
    \A i, j \in 1..Len(built) :
        (i < j /\ built[i].given = 0 /\ built[j].given = 0)
            => built[i].seq < built[j].seq

C22_Witness ==
    /\ Len(built) = 3
    /\ built[1].given = 0
    /\ built[2].given # 0
    /\ built[3].given = 0

\* C23: decoding the encoding of a packet gives a packet with the same op,
\* data, author, recipient, ttl and seq, and the time of encoding as its
\* timestamp.
C23_RoundTrip ==
    trip.p # NoPacket =>
        /\ trip.q.op = trip.p.op
        /\ trip.q.data = trip.p.data
        /\ trip.q.author = trip.p.author
        /\ trip.q.recipient = trip.p.recipient
        /\ trip.q.ttl = trip.p.ttl
        /\ trip.q.seq = trip.p.seq
        /\ trip.ts = trip.at

\* C24: the k-th wait of _discover_task lasts k seconds, k = 1..15, so
\* after k waits 1 + 2 + ... + k seconds have passed, and the timeout
\* fallback runs after 120 seconds of waiting.
C24_WaitPolicy ==
    /\ pc = "waiting" => waited = (steps * (steps + 1)) \div 2
    /\ last.kind \in {"fallback_reset", "fallback_replay"} => waited = 120

\* The internal tasks that are launched and not done.
Launched == { i \in 1..Len(itasks) : itasks[i].pc # "done" }

\* C25: start() on a Task whose internal task is not done raises
\* RuntimeError and leaves that internal task in place, and at no time are
\* two internal tasks of one Task object running.
C25_SingleInternalTask ==
    [][ /\ (start /\ Running(tk, itasks)) =>
              /\ tk'.raised = "RuntimeError"
              /\ tk'.task = tk.task
              /\ itasks' = itasks
        /\ Cardinality({ i \in 1..Len(itasks') : itasks'[i].pc # "done" }) <= 1
      ]_vars

C25_Witness ==
    /\ tk.last = "start"
    /\ tk.raised = "RuntimeError"
    /\ Len(itasks) = 2
    /\ Launched = {2}

\* C26: once stop() was called on a running Task (the stop flag is set)
\* the coroutine is not started again, also when the task was sleeping
\* between two iterations.
C26_StopGraceful ==
    [][ \A i \in 1..Len(itasks) :
            (tk.stop /\ itasks[i].pc = "sleeping") => itasks'[i].pc # "coro"
      ]_vars

\* C27: with coroutines registered, before_loop was called once when the
\* loop runs, and after_loop once when the loop is over, seeing
\* is_being_cancelled true when the task was cancelled.
C27_LoopHooks ==
    tk.hooks =>
        \A i \in 1..Len(itasks) :
            /\ itasks[i].entered => itasks[i].before = 1
            /\ (itasks[i].entered /\ itasks[i].pc = "done") =>
                  /\ itasks[i].after = 1
                  /\ itasks[i].cancelled => itasks[i].afterSaw = "TRUE"

\* C28: when the transient handler of a packet sent with an ack callback
\* runs on an Ack whose seq differs from that packet's, the callback is not
\* invoked and the handler stays registered; on an Ack with the packet's
\* seq it invokes the callback.
C28_AckMismatch ==
    [][ (run_task /\ tasks[1].h.kind = "inner") =>
            /\ tasks[1].p.wire # tasks[1].h.id =>
                  /\ cbCalls' = cbCalls
                  /\ ackListeners' = ackListeners
                  /\ Contains(ackListeners', tasks[1].h)
            /\ (tasks[1].p.wire = tasks[1].h.id /\ tasks[1].p.wire # 0) =>
                  cbCalls'[tasks[1].h.id] = cbCalls[tasks[1].h.id] + 1
      ]_vars

C28_Witness ==
    /\ last.kind = "ack_skip"
    /\ ackListeners # << >>
    /\ \A s \in 0..MaxSeq : cbCalls[s] = 0

C31_DiscoveryEntry ==
    [][ \A d \in flight :
            (net_deliver(d) /\ d.m.op \in {"Hello", "Sync"}) =>
                hosts[d.to].state # "Connected"
      ]_vars

\* C33: the ack callback of a sent packet is invoked only for an Ack that
\* another host wrote and that is broadcast or addressed to the local host.
C33_AckOnlyForUs ==
    [][ (run_task /\ tasks[1].h.kind = "inner" /\ cbCalls' # cbCalls) =>
            /\ tasks[1].p.author # LocalHost
            /\ tasks[1].p.recipient \in {None, LocalHost}
      ]_vars

\* The pending tasks that run a user handler.
UserTasks(ts) == { i \in 1..Len(ts) : ts[i].h.kind = "user" }

\* C35: no step taken while the client is in Discovery -- the receipt of a
\* packet, the timeout fallback that replays the backlog, the end of the
\* fallback -- hands a packet to a user handler; and a later step hands
\* user handlers only the packet it has just received, never one of the
\* backlog.
C35_NoDeliveryFromDiscovery ==
    [][ /\ state = "Discovery" =>
              Cardinality(UserTasks(tasks')) <= Cardinality(UserTasks(tasks))
        /\ Cardinality(UserTasks(tasks')) > Cardinality(UserTasks(tasks)) =>
              \E m \in Deliverable :
                  /\ receive(m)
                  /\ \A i \in (Len(tasks) + 1)..Len(tasks') :
                        tasks'[i].p = from_message(m, seqCounter)
      ]_vars

C35_Witness ==
    /\ last.kind = "fallback_finish"
    /\ state = "Alive"
    /\ backlog # << >>
    /\ UserTasks(tasks) = {}

====
